---- MODULE Spec2Model ----
(***************************************************************************)
(* Model of iaps.py: the IAPS scoring-table reader (read_scoring), the     *)
(* filename resolver (full_filename) and the three valence samplers        *)
(* (sample_negative_images, sample_positive_images,                        *)
(* sample_neutral_images).                                                 *)
(*                                                                         *)
(* Text is a sequence of one-character strings, so that parsing,           *)
(* formatting and path construction are computed, not assumed.  A value    *)
(* that may be absent (a NaN cell, n=None, random_state=None) is a         *)
(* sequence of length 0 or 1: << >> is absent, <<v>> is the value v.       *)
(* Numbers read from the file are kept exactly, in hundredths.             *)
(***************************************************************************)
EXTENDS Integers, Sequences, FiniteSets, TLC

\* Bounds of the model.
MaxRows == 2      \* data lines in the scoring file
MaxN == 2         \* largest sample size n requested
MaxSeed == 1      \* random_state seeds are 1..MaxSeed
MaxReads == 2     \* reads of the file are counted up to MaxReads

VARIABLES
    home,               \* expanduser('~') of the process
    choiceAllowsEmpty,  \* whether the installed numpy lets choice(0, size=0) return []
    file,               \* the data lines of the scoring file (after the 7 header lines)
    table,              \* what read_scoring produced in the latest call that read the file
    first,              \* what read_scoring produced in the first call that read the file
    reads,              \* how many calls have read the file so far (counted up to MaxReads)
    last,               \* the latest call: operation, arguments and outcome
    ref                 \* one earlier seeded sampler call, kept for comparison

vars == <<home, choiceAllowsEmpty, file, table, first, reads, last, ref>>

None == << >>
NaN == << >>

----------------------------------------------------------------------------
\* Text helpers

DigitChars == <<"0", "1", "2", "3", "4", "5", "6", "7", "8", "9">>

IsDigit(c) == \E d \in 1..10 : DigitChars[d] = c

DigitVal(c) == (CHOOSE d \in 1..10 : DigitChars[d] = c) - 1

\* str(int(x)) for x >= 0
RECURSIVE IntToStr(_)
IntToStr(k) ==
    IF k < 10 THEN <<DigitChars[k + 1]>>
    ELSE IntToStr(k \div 10) \o <<DigitChars[(k % 10) + 1]>>

IsIntText(t) == Len(t) > 0 /\ \A i \in 1..Len(t) : IsDigit(t[i])

\* int(text) for a text of digits
RECURSIVE ParseInt(_)
ParseInt(t) ==
    IF Len(t) = 0 THEN 0
    ELSE ParseInt(SubSeq(t, 1, Len(t) - 1)) * 10 + DigitVal(t[Len(t)])

DotPos(t) == IF \E i \in 1..Len(t) : t[i] = "." THEN CHOOSE i \in 1..Len(t) : t[i] = "." ELSE 0

\* A decimal text with at most two fractional digits, as hundredths.
ParseHundredths(t) ==
    LET d == DotPos(t)
        ip == IF d = 0 THEN t ELSE SubSeq(t, 1, d - 1)
        fp == IF d = 0 THEN << >> ELSE SubSeq(t, d + 1, Len(t))
        f2 == IF Len(fp) = 0 THEN 0
              ELSE IF Len(fp) = 1 THEN DigitVal(fp[1]) * 10
              ELSE DigitVal(fp[1]) * 10 + DigitVal(fp[2])
    IN ParseInt(ip) * 100 + f2

\* A numeric cell read without na_values
ParseCellNoNA(t) == <<ParseHundredths(t)>>

\* na_values='.': the cell '.' is NaN; any other numeric cell is its value.
ParseCell(t) == IF t = <<".">> THEN NaN ELSE <<ParseHundredths(t)>>

\* A text cell: '.' is NaN, anything else is kept.
ParseText(s) == IF s = "." THEN NaN ELSE <<s>>

----------------------------------------------------------------------------
\* "%.1f" % x, for the float x nearest to h/100 (IEEE double, h >= 100)

RECURSIVE Pow2Mod100(_)
Pow2Mod100(k) == IF k = 0 THEN 1 ELSE (2 * Pow2Mod100(k - 1)) % 100

\* floor(log2(h/100))
RECURSIVE FloatExp(_, _)
FloatExp(h, e) == IF 200 * (2 ^ e) <= h THEN FloatExp(h, e + 1) ELSE e

\* The sign of (double nearest to h/100) - h/100: the remainder of
\* h * 2^(52-e) by 100 says which way the 53-bit significand was rounded.
FloatErr(h) ==
    LET rem == ((h % 100) * Pow2Mod100(52 - FloatExp(h, 0))) % 100
    IN IF rem = 0 THEN 0 ELSE IF rem > 50 THEN 1 ELSE -1

\* The value in tenths that "%.1f" prints: correctly rounded from the double,
\* ties (only possible when the double is exact) to even.
RoundTenths(h) ==
    LET q == h \div 10
        r == h % 10
    IN IF r < 5 THEN q
       ELSE IF r > 5 THEN q + 1
       ELSE IF FloatErr(h) = 1 THEN q + 1
       ELSE IF FloatErr(h) = -1 THEN q
       ELSE IF q % 2 = 0 THEN q ELSE q + 1

Format1f(h) ==
    LET t == RoundTenths(h)
    IN IntToStr(t \div 10) \o <<".">> \o <<DigitChars[(t % 10) + 1]>>

FormatIdentifierAlways1f(h) == Format1f(h)

\* str(int(element)) if int(element) == float(element) else "%.1f" % element
FormatIdentifier(h) ==
    IF (h \div 100) * 100 = h THEN IntToStr(h \div 100) ELSE Format1f(h)

----------------------------------------------------------------------------
\* Paths

\* os.path.join(a, b) on a POSIX system
PathJoin(a, b) ==
    IF Len(b) > 0 /\ b[1] = "/" THEN b
    ELSE IF Len(a) = 0 \/ a[Len(a)] = "/" THEN a \o b
    ELSE a \o <<"/">> \o b

DATA == <<"d", "a", "t", "a">>
IAPS2008 == <<"I", "A", "P", "S", " ", "2", "0", "0", "8", " ", "1", "-", "2", "0">>
IMAGES == <<"I", "A", "P", "S", " ", "1", "-", "2", "0", " ", "I", "m", "a", "g", "e", "s">>
N6570 == <<"6", "5", "7", "0">>
N6570_1 == <<"6", "5", "7", "0", ".", "1">>
N6561 == <<"6", "5", "6", "1">>
N6560 == <<"6", "5", "6", "0">>

HomeChoices == {<<"/">>, <<"/", "h">>}

IAPS_DIR == PathJoin(PathJoin(home, DATA), IAPS2008)

ExtUpper == <<".", "J", "P", "G">>
ExtLower == <<".", "j", "p", "g">>

\* The identifiers whose image file has the extension '.JPG'
UpperCaseNames == {N6570, N6570_1, N6561, N6560}

full_filename_lower(name) == PathJoin(PathJoin(IAPS_DIR, IMAGES), name) \o ExtLower

full_filename(name) ==
    LET joined == PathJoin(PathJoin(IAPS_DIR, IMAGES), name)
    IN IF name \in UpperCaseNames THEN joined \o ExtUpper ELSE joined \o ExtLower

----------------------------------------------------------------------------
\* read_scoring

\* pd.read_csv(filename, names=columns, sep='\t', skiprows=7, na_values='.'):
\* one row per data line; desc and set are text columns, the rest numeric.
read_csv(f) ==
    [i \in 1..Len(f) |->
        [desc |-> ParseText(f[i].desc),
         IAPS |-> ParseCell(f[i].IAPS),
         valmn |-> ParseCell(f[i].valmn),
         valsd |-> ParseCell(f[i].valsd),
         aromn |-> ParseCell(f[i].aromn),
         arosd |-> ParseCell(f[i].arosd),
         dom1mn |-> ParseCell(f[i].dom1mn),
         dom1sd |-> ParseCell(f[i].dom1sd),
         dom2mn |-> ParseCell(f[i].dom2mn),
         dom2sd |-> ParseCell(f[i].dom2sd),
         set |-> IF f[i].set = <<".">> THEN NaN ELSE <<f[i].set>>]]

\* item[:-1]
StripLast(t) == SubSeq(t, 1, Len(t) - 1)

NoRead == [ok |-> FALSE, err |-> "none", rows |-> << >>]

Failed(e) == [ok |-> FALSE, err |-> e, rows |-> << >>]

\* The cleanup of the set and IAPS columns, in the order the code runs it.
Cleanup(df) ==
    IF \E i \in 1..Len(df) : df[i].set = NaN
    THEN Failed("TypeError")            \* item[:-1] of a float NaN
    ELSE IF \E i \in 1..Len(df) : ~IsIntText(StripLast(df[i].set[1]))
    THEN Failed("ValueError")           \* astype(int)
    ELSE IF \E i \in 1..Len(df) : df[i].IAPS = NaN
    THEN Failed("ValueError")           \* int(NaN)
    ELSE [ok |-> TRUE, err |-> "",
          rows |-> [i \in 1..Len(df) |->
                      [df[i] EXCEPT !.set = ParseInt(StripLast(df[i].set[1])),
                                    !.IAPS = FormatIdentifier(df[i].IAPS[1])]]]

\* A reader that keeps the table of the previous call and cleans it again.
read_scoring_cached(f) ==
    IF table.ok
    THEN [table EXCEPT !.rows = [i \in 1..Len(table.rows) |->
                                   [table.rows[i] EXCEPT !.set = @ \div 10]]]
    ELSE Cleanup(read_csv(f))

read_scoring(f) == Cleanup(read_csv(f))

----------------------------------------------------------------------------
\* The data lines a scoring file is made of

\* A data line with a low valence and a whole-number identifier
RowSnake ==
    [desc |-> "Snake",
     IAPS |-> <<"1", "0", "0", "0">>,
     valmn |-> <<"2", ".", "5", "0">>,
     valsd |-> <<"1", ".", "5", "0">>,
     aromn |-> <<"5", ".", "0", "0">>,
     arosd |-> <<"2", ".", "1", "0">>,
     dom1mn |-> <<"4", ".", "2", "0">>,
     dom1sd |-> <<"1", ".", "9", "0">>,
     dom2mn |-> <<"5", ".", "5", "0">>,
     dom2sd |-> <<"2", ".", "0", "0">>,
     set |-> <<"1", "\\">>]

\* A data line at the negative default threshold; its image is one of the '.JPG' files
RowGun ==
    [desc |-> "Gun",
     IAPS |-> <<"6", "5", "7", "0", ".", "1">>,
     valmn |-> <<"3", ".", "0", "0">>,
     valsd |-> <<"1", ".", "5", "0">>,
     aromn |-> <<"5", ".", "0", "0">>,
     arosd |-> <<"2", ".", "1", "0">>,
     dom1mn |-> <<"4", ".", "2", "0">>,
     dom1sd |-> <<"1", ".", "9", "0">>,
     dom2mn |-> <<"5", ".", "5", "0">>,
     dom2sd |-> <<"2", ".", "0", "0">>,
     set |-> <<"1", "2", "\\">>]

\* A neutral data line without dominance ratings
RowChair ==
    [desc |-> "Chair",
     IAPS |-> <<"6", "5", "7", "0">>,
     valmn |-> <<"5", ".", "0", "0">>,
     valsd |-> <<"1", ".", "5", "0">>,
     aromn |-> <<"5", ".", "0", "0">>,
     arosd |-> <<"2", ".", "1", "0">>,
     dom1mn |-> <<".">>,
     dom1sd |-> <<".">>,
     dom2mn |-> <<".">>,
     dom2sd |-> <<".">>,
     set |-> <<"3", "\\">>]

\* A data line at the positive default threshold; identifier with two decimals
RowBaby ==
    [desc |-> "Baby",
     IAPS |-> <<"2", "3", "4", "5", ".", "2", "5">>,
     valmn |-> <<"7", ".", "0", "0">>,
     valsd |-> <<"1", ".", "5", "0">>,
     aromn |-> <<"5", ".", "0", "0">>,
     arosd |-> <<"2", ".", "1", "0">>,
     dom1mn |-> <<"4", ".", "2", "0">>,
     dom1sd |-> <<"1", ".", "9", "0">>,
     dom2mn |-> <<"5", ".", "5", "0">>,
     dom2sd |-> <<"2", ".", "0", "0">>,
     set |-> <<"7", "\\">>]

\* A data line with a high valence; identifier written with a trailing '.0'
RowPuppies ==
    [desc |-> "Puppies",
     IAPS |-> <<"9", "9", "4", "1", ".", "0">>,
     valmn |-> <<"7", ".", "5", "0">>,
     valsd |-> <<"1", ".", "5", "0">>,
     aromn |-> <<"5", ".", "0", "0">>,
     arosd |-> <<"2", ".", "1", "0">>,
     dom1mn |-> <<"4", ".", "2", "0">>,
     dom1sd |-> <<"1", ".", "9", "0">>,
     dom2mn |-> <<"5", ".", "5", "0">>,
     dom2sd |-> <<"2", ".", "0", "0">>,
     set |-> <<"2", "0", "\\">>]

\* A data line with no description and no valence ratings, under the
\* identifier of another line
RowUnrated ==
    [desc |-> ".",
     IAPS |-> <<"6", "5", "7", "0">>,
     valmn |-> <<".">>,
     valsd |-> <<".">>,
     aromn |-> <<".">>,
     arosd |-> <<".">>,
     dom1mn |-> <<"4", ".", "2", "0">>,
     dom1sd |-> <<"1", ".", "9", "0">>,
     dom2mn |-> <<"5", ".", "5", "0">>,
     dom2sd |-> <<"2", ".", "0", "0">>,
     set |-> <<"5", "\\">>]

\* A data line whose set field is the missing-value marker
RowNoSet ==
    [desc |-> "Sky",
     IAPS |-> <<"7", "0", "0", "0">>,
     valmn |-> <<"5", ".", "0", "0">>,
     valsd |-> <<"1", ".", "5", "0">>,
     aromn |-> <<"5", ".", "0", "0">>,
     arosd |-> <<"2", ".", "1", "0">>,
     dom1mn |-> <<"4", ".", "2", "0">>,
     dom1sd |-> <<"1", ".", "9", "0">>,
     dom2mn |-> <<"5", ".", "5", "0">>,
     dom2sd |-> <<"2", ".", "0", "0">>,
     set |-> <<".">>]

\* A data line whose identifier field is the missing-value marker
RowNoId ==
    [desc |-> "Sea",
     IAPS |-> <<".">>,
     valmn |-> <<"5", ".", "0", "0">>,
     valsd |-> <<"1", ".", "5", "0">>,
     aromn |-> <<"5", ".", "0", "0">>,
     arosd |-> <<"2", ".", "1", "0">>,
     dom1mn |-> <<"4", ".", "2", "0">>,
     dom1sd |-> <<"1", ".", "9", "0">>,
     dom2mn |-> <<"5", ".", "5", "0">>,
     dom2sd |-> <<"2", ".", "0", "0">>,
     set |-> <<"2", "\\">>]

RowChoices == {RowSnake, RowGun, RowChair, RowBaby, RowPuppies, RowUnrated, RowNoSet, RowNoId}

\* The lines the sampler files are made of: one at each default threshold,
\* one between them, one without a valence
SamplerRows == {RowGun, RowChair, RowBaby, RowUnrated}

RECURSIVE SeqsUpTo(_, _)
SeqsUpTo(S, k) ==
    IF k = 0 THEN {<< >>}
    ELSE LET shorter == SeqsUpTo(S, k - 1)
         IN shorter \cup {Append(q, x) : q \in shorter, x \in S}

Files == SeqsUpTo(RowChoices, MaxRows)

\* Files of lines the reader accepts, and such files with their last line
\* replaced by a line it rejects
SamplerFiles ==
    LET good == SeqsUpTo(SamplerRows, MaxRows)
    IN good \cup {Append(SubSeq(q, 1, Len(q) - 1), RowNoSet) : q \in good \ {<< >>}}

----------------------------------------------------------------------------
\* Row selection by valence.  A comparison with NaN is false.

\* A comparison that orders NaN below every number
LeNaNLowest(cell, t) == cell = NaN \/ cell[1] <= t

Le(cell, t) == cell # NaN /\ cell[1] <= t

Ge(cell, t) == cell # NaN /\ cell[1] >= t

Indices(rows) == [i \in 1..Len(rows) |-> i]

\* df.valmn <= threshold: the positions of the selected rows, in table order
negative_mask(rows, threshold) ==
    LET Keep(i) == Le(rows[i].valmn, threshold)
    IN SelectSeq(Indices(rows), Keep)

\* df.valmn >= threshold
positive_mask(rows, threshold) ==
    LET Keep(i) == Ge(rows[i].valmn, threshold)
    IN SelectSeq(Indices(rows), Keep)

\* A neutral selection that forgets the upper threshold
neutral_mask_lower_only(rows, thresholds) ==
    LET Keep(i) == Ge(rows[i].valmn, thresholds[1])
    IN SelectSeq(Indices(rows), Keep)

\* (df.valmn >= thresholds[0]) & (df.valmn <= thresholds[1])
neutral_mask(rows, thresholds) ==
    LET Keep(i) == Ge(rows[i].valmn, thresholds[1]) /\ Le(rows[i].valmn, thresholds[2])
    IN SelectSeq(Indices(rows), Keep)

\* Default thresholds, in hundredths
DefaultNegativeThreshold == 300
DefaultPositiveThreshold == 700
DefaultNeutralLow == 400
DefaultNeutralHigh == 600

NegativeThresholds == {DefaultNegativeThreshold, 500}
PositiveThresholds == {DefaultPositiveThreshold, 500}
NeutralThresholds == {<<DefaultNeutralLow, DefaultNeutralHigh>>, <<300, 700>>}

----------------------------------------------------------------------------
\* Series.sample(n=n, random_state=random_state)

Perms(N) == {p \in [1..N -> 1..N] : \A i, j \in 1..N : p[i] = p[j] => i = j}

\* numpy.random.RandomState(seed).permutation(N): a fixed function of the
\* seed and N.  The generator itself is not modelled; this stands for it.
RandomStatePermutation(seed, N) == [i \in 1..N |-> ((i + seed - 1) % N) + 1]

SampleFailed == [ok |-> FALSE, err |-> "ValueError", locs |-> << >>]

\* Variants of the draw: n=None taken as "all"; drawing with replacement;
\* a request larger than the population cut down to it; the seed ignored.
PandasSampleAllWhenOmitted(N, n, seed, entropy) ==
    LET size == IF n = None THEN N ELSE n[1]
        perm == IF seed = None THEN entropy ELSE RandomStatePermutation(seed[1], N)
    IN IF size > N THEN SampleFailed
       ELSE IF N = 0 /\ ~choiceAllowsEmpty THEN SampleFailed
       ELSE [ok |-> TRUE, err |-> "", locs |-> SubSeq(perm, 1, size)]

PandasSampleWithReplacement(N, n, seed, entropy) ==
    LET size == IF n = None THEN 1 ELSE n[1]
        perm == IF seed = None THEN entropy ELSE RandomStatePermutation(seed[1], N)
    IN IF size > N THEN SampleFailed
       ELSE IF N = 0 /\ ~choiceAllowsEmpty THEN SampleFailed
       ELSE [ok |-> TRUE, err |-> "", locs |-> [i \in 1..size |-> perm[1]]]

PandasSampleClamped(N, n, seed, entropy) ==
    LET asked == IF n = None THEN 1 ELSE n[1]
        size == IF asked > N THEN N ELSE asked
        perm == IF seed = None THEN entropy ELSE RandomStatePermutation(seed[1], N)
    IN IF N = 0 /\ ~choiceAllowsEmpty THEN SampleFailed
       ELSE [ok |-> TRUE, err |-> "", locs |-> SubSeq(perm, 1, size)]

PandasSampleUnseeded(N, n, seed, entropy) ==
    LET size == IF n = None THEN 1 ELSE n[1]
    IN IF size > N THEN SampleFailed
       ELSE IF N = 0 /\ ~choiceAllowsEmpty THEN SampleFailed
       ELSE [ok |-> TRUE, err |-> "", locs |-> SubSeq(entropy, 1, size)]

\* The positions drawn from a population of N: n defaults to 1, replace=False;
\* a seed gives a fresh RandomState(seed), no seed the process-wide generator
\* (entropy is the permutation it would produce).
PandasSample(N, n, seed, entropy) ==
    LET size == IF n = None THEN 1 ELSE n[1]
        perm == IF seed = None THEN entropy ELSE RandomStatePermutation(seed[1], N)
    IN IF size > N THEN SampleFailed
       ELSE IF N = 0 /\ ~choiceAllowsEmpty THEN SampleFailed
       ELSE [ok |-> TRUE, err |-> "", locs |-> SubSeq(perm, 1, size)]

----------------------------------------------------------------------------
\* Calls

Call(op, arg, n, seed, thr, ok, err, out, locs) ==
    [op |-> op, arg |-> arg, n |-> n, seed |-> seed, thr |-> thr,
     ok |-> ok, err |-> err, out |-> out, locs |-> locs]

NoCall == Call("none", << >>, None, None, << >>, FALSE, "", << >>, << >>)

Samplers == {"sample_negative_images", "sample_positive_images", "sample_neutral_images"}

Ns == {None} \cup {<<k>> : k \in 0..MaxN}
Seeds == {None} \cup {<<s>> : s \in 1..MaxSeed}

NameChoices == UpperCaseNames \cup
    {<<"1", "0", "0", "0">>,
     <<"6", "5", "7", "0", ".", "2">>,
     <<"6", "5", "7", "0", "1">>}

InitWith(homes, flags, files) ==
    /\ home \in homes
    /\ choiceAllowsEmpty \in flags
    /\ file \in files
    /\ table = NoRead
    /\ first = NoRead
    /\ reads = 0
    /\ last = NoCall
    /\ ref = NoCall

Init == InitWith({<<"/", "h">>}, BOOLEAN, SamplerFiles)

\* The module is synchronous and single-threaded: a call starts when no
\* other call is in progress, and its outcome stays with the caller until
\* the caller has taken it (Return).
Idle == last = NoCall

\* df = read_scoring(): the file is read and parsed anew
Loaded(r) ==
    /\ table' = r
    /\ first' = IF reads = 0 THEN r ELSE first
    /\ reads' = IF reads < MaxReads THEN reads + 1 ELSE reads

ReadScoring ==
    LET r == read_scoring(file)
    IN /\ Idle
       /\ Loaded(r)
       /\ last' = Call("read_scoring", << >>, None, None, << >>, r.ok, r.err, << >>, << >>)
       /\ UNCHANGED <<home, choiceAllowsEmpty, file, ref>>

FullFilename(name) ==
    /\ Idle
    /\ last' = Call("full_filename", name, None, None, << >>, TRUE, "",
                    <<full_filename(name)>>, << >>)
    /\ UNCHANGED <<home, choiceAllowsEmpty, file, table, first, reads, ref>>

\* .sample(n=n, random_state=random_state) of the selected identifiers, then
\* full_filename of each; an exception of the reader or of sample propagates.
SampleAndResolve(op, n, seed, thr, r, sel) ==
    /\ Idle
    /\ Loaded(r)
    /\ IF ~r.ok
       THEN last' = Call(op, << >>, n, seed, thr, FALSE, r.err, << >>, << >>)
       ELSE \E entropy \in Perms(Len(sel)) :
              LET s == PandasSample(Len(sel), n, seed, entropy)
                  picked == [i \in 1..Len(s.locs) |-> sel[s.locs[i]]]
              IN last' = Call(op, << >>, n, seed, thr, s.ok, s.err,
                              [i \in 1..Len(picked) |-> full_filename(r.rows[picked[i]].IAPS)],
                              picked)
    /\ UNCHANGED <<home, choiceAllowsEmpty, file, ref>>

SampleNegative(n, seed, threshold) ==
    LET r == read_scoring(file)
    IN SampleAndResolve("sample_negative_images", n, seed, <<threshold>>, r,
                        negative_mask(r.rows, threshold))

SamplePositive(n, seed, threshold) ==
    LET r == read_scoring(file)
    IN SampleAndResolve("sample_positive_images", n, seed, <<threshold>>, r,
                        positive_mask(r.rows, threshold))

SampleNeutral(n, seed, thresholds) ==
    LET r == read_scoring(file)
    IN SampleAndResolve("sample_neutral_images", n, seed, thresholds, r,
                        neutral_mask(r.rows, thresholds))

\* The caller takes the outcome of the call.
Return ==
    /\ ~Idle
    /\ last' = NoCall
    /\ UNCHANGED <<home, choiceAllowsEmpty, file, table, first, reads, ref>>

Next ==
    \/ Return
    \/ ReadScoring
    \/ \E name \in NameChoices : FullFilename(name)
    \/ \E n \in Ns, seed \in Seeds, t \in NegativeThresholds : SampleNegative(n, seed, t)
    \/ \E n \in Ns, seed \in Seeds, t \in PositiveThresholds : SamplePositive(n, seed, t)
    \/ \E n \in Ns, seed \in Seeds, t \in NeutralThresholds : SampleNeutral(n, seed, t)

Spec == Init /\ [][Next]_vars

\* The caller keeps the outcome of a seeded sampler call to compare later
\* calls with it.
Remember ==
    /\ ~Idle
    /\ ref = NoCall
    /\ last.op \in Samplers
    /\ last.seed # None
    /\ ref' = last
    /\ last' = NoCall
    /\ UNCHANGED <<home, choiceAllowsEmpty, file, table, first, reads>>

DetFiles == {<<RowGun>>, <<RowGun, RowChair>>, <<RowChair, RowChair>>}

DetInit == InitWith({<<"/", "h">>}, BOOLEAN, DetFiles)

DetNext == Next \/ Remember

SpecDet == DetInit /\ [][DetNext]_vars

\* The reader and the resolver alone, on every kind of data line and home
ReadInit == InitWith(HomeChoices, {TRUE}, Files)

ReadNext ==
    \/ Return
    \/ ReadScoring
    \/ \E name \in NameChoices : FullFilename(name)

SpecRead == ReadInit /\ [][ReadNext]_vars

----------------------------------------------------------------------------
\* Properties

IsSampler(c) == c.op \in Samplers

\* The latest call is a sampler call whose read of the file succeeded.
Sampled == IsSampler(last) /\ table.ok

\* The valence predicate of the sampler called in c, stated on a table row.
Qualifies(c, row) ==
    /\ row.valmn # NaN
    /\ CASE c.op = "sample_negative_images" -> row.valmn[1] <= c.thr[1]
         [] c.op = "sample_positive_images" -> row.valmn[1] >= c.thr[1]
         [] c.op = "sample_neutral_images" ->
                c.thr[1] <= row.valmn[1] /\ row.valmn[1] <= c.thr[2]

QualifyingRows(c) == {j \in 1..Len(table.rows) : Qualifies(c, table.rows[j])}

Count(c) == Cardinality(QualifyingRows(c))

Distinct(s) == \A i, j \in 1..Len(s) : s[i] = s[j] => i = j

EndsWith(s, e) == Len(s) >= Len(e) /\ SubSeq(s, Len(s) - Len(e) + 1, Len(s)) = e

\* C1: every path a sampler returns is full_filename of the identifier of a
\* table row whose valence satisfies that sampler's predicate (<= threshold
\* for negative, >= threshold for positive, between the two thresholds,
\* both inclusive, for neutral).
C1_PathsFromQualifyingRows ==
    (Sampled /\ last.ok) =>
        /\ Len(last.locs) = Len(last.out)
        /\ \A i \in 1..Len(last.out) :
              /\ last.locs[i] \in 1..Len(table.rows)
              /\ Qualifies(last, table.rows[last.locs[i]])
              /\ last.out[i] = full_filename(table.rows[last.locs[i]].IAPS)

C1_Witness ==
    /\ Sampled /\ last.ok
    /\ last.op = "sample_neutral_images"
    /\ Len(last.out) >= 1
    /\ \E j \in 1..Len(table.rows) :
          table.rows[j].valmn # NaN /\ table.rows[j].valmn[1] > last.thr[2]

\* C2 as stated: with n omitted a sampler returns every qualifying filename,
\* without duplicates, as many as there are qualifying rows, and no error.
C2_OmittedNReturnsAll ==
    (Sampled /\ last.n = None) =>
        /\ last.ok
        /\ Len(last.out) = Count(last)
        /\ Distinct(last.out)

\* C2 amended: with n omitted a sampler returns exactly one filename, that of
\* a qualifying row, when at least one row qualifies, and fails with a
\* ValueError when none does.
C2_OmittedNReturnsOne ==
    (Sampled /\ last.n = None) =>
        IF Count(last) = 0
        THEN ~last.ok /\ last.err = "ValueError" /\ last.out = << >>
        ELSE /\ last.ok
             /\ Len(last.out) = 1
             /\ last.locs[1] \in QualifyingRows(last)
             /\ last.out[1] = full_filename(table.rows[last.locs[1]].IAPS)

C2_Witness ==
    /\ Sampled /\ last.n = None
    /\ Count(last) >= 2
    /\ last.ok /\ Len(last.out) = 1

\* C3 as stated: for every n with 0 <= n <= the number of qualifying rows
\* the sampler returns exactly n filenames, from n different rows, pairwise
\* distinct.
C3_ExactlyNDistinct ==
    (Sampled /\ last.n # None /\ last.n[1] <= Count(last)) =>
        /\ last.ok
        /\ Len(last.out) = last.n[1]
        /\ Distinct(last.locs)
        /\ Distinct(last.out)

\* C3 amended: for every n with 0 <= n <= the number of qualifying rows,
\* when at least one row qualifies the sampler returns exactly n filenames
\* of n different qualifying rows, pairwise distinct if the qualifying rows'
\* identifiers are; when no row qualifies (n = 0) it returns the empty list
\* or fails with a ValueError, depending on the installed numpy.
C3_ExactlyNFromDistinctRows ==
    (Sampled /\ last.n # None /\ last.n[1] <= Count(last)) =>
        IF Count(last) = 0
        THEN /\ last.out = << >>
             /\ last.ok = choiceAllowsEmpty
             /\ ~last.ok => last.err = "ValueError"
        ELSE /\ last.ok
             /\ Len(last.out) = last.n[1]
             /\ Len(last.locs) = last.n[1]
             /\ Distinct(last.locs)
             /\ \A i \in 1..Len(last.locs) : last.locs[i] \in QualifyingRows(last)
             /\ (\A j, k \in QualifyingRows(last) :
                     table.rows[j].IAPS = table.rows[k].IAPS => j = k)
                => Distinct(last.out)

C3_Witness ==
    /\ Sampled /\ last.ok
    /\ last.n = <<2>> /\ Count(last) >= 2
    /\ Len(last.out) = 2 /\ last.out[1] # last.out[2]

\* C4: a sampler asked for more filenames than rows qualify fails with a
\* ValueError and returns no paths, whatever the sampler and the threshold.
C4_TooLargeNFails ==
    (Sampled /\ last.n # None /\ last.n[1] > Count(last)) =>
        /\ ~last.ok
        /\ last.err = "ValueError"
        /\ last.out = << >>

C4_Witness ==
    /\ Sampled /\ last.n = <<2>> /\ Count(last) = 1
    /\ ~last.ok /\ last.err = "ValueError"

\* C5: a sampler call with a seed has the same outcome (the same paths in
\* the same order, or the same error) as an earlier call of the same sampler
\* with the same seed, n and thresholds, whatever was called in between.
C5_SeededCallsAgree ==
    (/\ ref # NoCall /\ IsSampler(last)
     /\ last.op = ref.op /\ last.n = ref.n
     /\ last.seed = ref.seed /\ last.thr = ref.thr) =>
        /\ last.ok = ref.ok
        /\ last.err = ref.err
        /\ last.out = ref.out

C5_Witness ==
    /\ ref # NoCall /\ IsSampler(last)
    /\ last.op = ref.op /\ last.n = ref.n
    /\ last.seed = ref.seed /\ last.thr = ref.thr
    /\ reads >= 2
    /\ Len(last.out) >= 2
    /\ last.out = ref.out

\* The images directory followed by a separator, written out.
ImagesPrefix ==
    (IF home = <<"/">> THEN << >> ELSE home) \o <<"/">> \o DATA \o <<"/">>
        \o IAPS2008 \o <<"/">> \o IMAGES \o <<"/">>

\* C6: full_filename(name) is the images directory, a separator, the name
\* unchanged, and the extension '.JPG' exactly when the name is '6570',
\* '6570.1', '6561' or '6560', '.jpg' otherwise.
C6_FullFilename ==
    (last.op = "full_filename") =>
        LET name == last.arg
            upper == name \in {N6570, N6570_1, N6561, N6560}
        IN /\ Len(last.out) = 1
           /\ last.out[1] = ImagesPrefix \o name
                              \o (IF upper THEN <<".", "J", "P", "G">>
                                  ELSE <<".", "j", "p", "g">>)

C6_Witness ==
    /\ last.op = "full_filename"
    /\ last.arg = N6570_1
    /\ EndsWith(last.out[1], <<"6", "5", "7", "0", ".", "1", ".", "J", "P", "G">>)

\* C7: in the table read_scoring returns, the identifier of a line whose
\* raw identifier is a whole number is that number's decimal digits, with no
\* decimal point; any other identifier is digits, a point and exactly one
\* digit, the raw value rounded to one decimal.
C7_IdentifierRendering ==
    (last.op = "read_scoring" /\ last.ok) =>
        /\ Len(table.rows) = Len(file)
        /\ \A i \in 1..Len(file) :
              LET h == ParseHundredths(file[i].IAPS)
                  s == table.rows[i].IAPS
              IN IF h % 100 = 0
                 THEN /\ IsIntText(s)
                      /\ ParseInt(s) * 100 = h
                      /\ (Len(s) > 1 => s[1] # "0")
                 ELSE /\ Len(s) >= 3
                      /\ s[Len(s) - 1] = "."
                      /\ IsDigit(s[Len(s)])
                      /\ IsIntText(SubSeq(s, 1, Len(s) - 2))
                      /\ ParseHundredths(s) - h \in -5..5

C7_Witness ==
    /\ last.op = "read_scoring" /\ last.ok
    /\ \E i \in 1..Len(file) :
          /\ file[i].IAPS = <<"9", "9", "4", "1", ".", "0">>
          /\ table.rows[i].IAPS = <<"9", "9", "4", "1">>
    /\ \E i \in 1..Len(file) :
          /\ file[i].IAPS = <<"2", "3", "4", "5", ".", "2", "5">>
          /\ table.rows[i].IAPS = <<"2", "3", "4", "5", ".", "2">>

WellFormedIdentifier(s) ==
    \/ IsIntText(s)
    \/ /\ Len(s) >= 3
       /\ s[Len(s) - 1] = "."
       /\ IsDigit(s[Len(s)])
       /\ IsIntText(SubSeq(s, 1, Len(s) - 2))

NumericColumns == {"valmn", "valsd", "aromn", "arosd", "dom1mn", "dom1sd", "dom2mn", "dom2sd"}

\* Every '.' cell of line i outside the identifier and set columns is null in
\* row i, and no other cell is.
MarkersAreNull(i) ==
    /\ (file[i].desc = ".") <=> (table.rows[i].desc = NaN)
    /\ \A c \in NumericColumns : (file[i][c] = <<".">>) <=> (table.rows[i][c] = NaN)

\* C8 as stated: read_scoring does not fail on a data line with the
\* missing-value marker '.' in any column: it returns a table with one row
\* per line, the '.' cells null, every row with a well-formed identifier.
\* (Every line of every file here is well formed but for its '.' fields.)
C8_MissingMarkerNeverFails ==
    (last.op = "read_scoring") =>
        /\ last.ok
        /\ Len(table.rows) = Len(file)
        /\ \A i \in 1..Len(table.rows) :
              WellFormedIdentifier(table.rows[i].IAPS) /\ MarkersAreNull(i)

\* C8 amended: a '.' in the description or in one of the eight statistics
\* columns becomes null and the row is returned; a '.' in the set column
\* makes read_scoring fail with a TypeError and a '.' in the identifier
\* column with a ValueError, so every row of a returned table has a
\* well-formed identifier.
C8_MissingMarkerInDataColumns ==
    (last.op = "read_scoring") =>
        IF \E i \in 1..Len(file) : file[i].set = <<".">>
        THEN ~last.ok /\ last.err = "TypeError"
        ELSE IF \E i \in 1..Len(file) : file[i].IAPS = <<".">>
        THEN ~last.ok /\ last.err = "ValueError"
        ELSE /\ last.ok
             /\ Len(table.rows) = Len(file)
             /\ \A i \in 1..Len(table.rows) :
                   WellFormedIdentifier(table.rows[i].IAPS) /\ MarkersAreNull(i)

C8_Witness ==
    /\ last.op = "read_scoring" /\ last.ok
    /\ \E i \in 1..Len(file) :
          /\ file[i].desc = "." /\ table.rows[i].desc = NaN
          /\ file[i].valmn = <<".">> /\ table.rows[i].valmn = NaN
    /\ \E i \in 1..Len(file) :
          file[i].dom2sd = <<".">> /\ table.rows[i].dom2sd = NaN

NullValenceRows == {j \in 1..Len(table.rows) : table.rows[j].valmn = NaN}

Range(s) == {s[i] : i \in 1..Len(s)}

\* The number of rows with a valence that the call's predicate selects
RatedCount(c) == Cardinality(QualifyingRows(c) \ NullValenceRows)

\* C10 as stated: the identifier of a row without a valence never appears in
\* a sampler's output, and the row is not counted among the rows that bound n.
C10_NullValenceIdentifierAbsent ==
    Sampled =>
        /\ \A j \in NullValenceRows :
              full_filename(table.rows[j].IAPS) \notin Range(last.out)
        /\ last.ok => Len(last.out) <= RatedCount(last)
        /\ (last.n # None /\ last.n[1] > RatedCount(last)) => ~last.ok

\* C10 amended: a row without a valence is never drawn by a sampler, so its
\* identifier appears in the output only if a qualifying row carries the same
\* identifier, and the row is not counted among the rows that bound n.
C10_NullValenceNeverSelected ==
    Sampled =>
        /\ \A j \in NullValenceRows :
              /\ j \notin Range(last.locs)
              /\ (\A k \in QualifyingRows(last) :
                      table.rows[k].IAPS # table.rows[j].IAPS)
                 => full_filename(table.rows[j].IAPS) \notin Range(last.out)
        /\ last.ok => Len(last.out) <= RatedCount(last)
        /\ (last.n # None /\ last.n[1] > RatedCount(last)) => ~last.ok

C10_Witness ==
    /\ Sampled /\ last.ok /\ Len(last.out) >= 1
    /\ \E j \in 1..Len(table.rows) : table.rows[j].valmn = NaN

====
